---- MODULE Spec2Model ----
(***************************************************************************)
(* Model of bookmarkorganizer.py: the query mini-grammar, the filter       *)
(* stages and the fuzzy fallback of search_bookmarks, the usage-count      *)
(* update, and the control flow of main.                                   *)
(*                                                                         *)
(* Strings are sequences of one-character strings, so that lower(),        *)
(* startswith(), strip(), split() and urlparse() are computed character by *)
(* character.  A list of bookmarks returned by search_bookmarks or sorted  *)
(* is a sequence of positions in the loaded list `bookmarks`: Python lists *)
(* hold references to the loaded dicts, and a position is that reference.  *)
(***************************************************************************)
EXTENDS Integers, Sequences, FiniteSets, TLC

VARIABLES
    pc,             \* position of the running call
    argv,           \* sys.argv[1:]
    query,          \* the query string of the call
    file,           \* the "bookmarks" list stored in BOOKMARKS_FILE
    bookmarks,      \* the list loaded in memory
    partial_ratio,  \* fuzz.partial_ratio(query, searchable) per loaded bookmark
    ratio,          \* fuzz.ratio(query, searchable) per loaded bookmark
    results,        \* the list held by `results` (positions in bookmarks)
    found,          \* the list search_bookmarks returned (positions in bookmarks)
    stdout,         \* what print() has written
    calls,          \* the functions called so far, in call order
    query2,         \* second call on the same list: its query,
    partial_ratio2, \*   its fuzz.partial_ratio values,
    ratio2,         \*   its fuzz.ratio values,
    found2          \*   and the list it returned

vars == <<pc, argv, query, file, bookmarks, partial_ratio, ratio, results, found,
          stdout, calls, query2, partial_ratio2, ratio2, found2>>

-----------------------------------------------------------------------------
(* Bounds of the model *)

MaxBookmarks == 2
MaxTokens == 2
MaxUsage == 1

(* Constants of the program *)

TitleBoost == 20
ScoreThreshold == 50

-----------------------------------------------------------------------------
(* str methods *)

Upper == {"A", "B", "C", "H", "I", "O", "P", "R", "T", "Z"}

LowerOf == [c \in Upper |->
              CASE c = "A" -> "a" [] c = "B" -> "b" [] c = "C" -> "c"
                [] c = "H" -> "h" [] c = "I" -> "i" [] c = "O" -> "o"
                [] c = "P" -> "p" [] c = "R" -> "r" [] c = "T" -> "t"
                [] c = "Z" -> "z"]

Letters == Upper \cup {LowerOf[c] : c \in Upper} \cup {"s", "u", "f", "n", "x"}

Whitespace == {" "}

lower(s) == [i \in 1..Len(s) |-> IF s[i] \in Upper THEN LowerOf[s[i]] ELSE s[i]]

startswith(s, p) == Len(p) <= Len(s) /\ SubSeq(s, 1, Len(p)) = p

RECURSIVE lstrip(_)
lstrip(s) == IF s # <<>> /\ Head(s) \in Whitespace THEN lstrip(Tail(s)) ELSE s

RECURSIVE rstrip(_)
rstrip(s) ==
    IF s # <<>> /\ s[Len(s)] \in Whitespace THEN rstrip(SubSeq(s, 1, Len(s) - 1)) ELSE s

strip(s) == rstrip(lstrip(s))

\* the first whitespace-free run of a string that starts with a non-blank
RECURSIVE FirstWord(_)
FirstWord(s) ==
    IF s = <<>> \/ Head(s) \in Whitespace THEN <<>> ELSE <<Head(s)>> \o FirstWord(Tail(s))

RECURSIVE split(_)
split(s) ==
    LET t == lstrip(s)
        w == FirstWord(t)
    IN  IF t = <<>> THEN <<>> ELSE <<w>> \o split(SubSeq(t, Len(w) + 1, Len(t)))

RECURSIVE join(_, _)
join(sep, parts) ==
    IF parts = <<>> THEN <<>>
    ELSE IF Len(parts) = 1 THEN parts[1]
    ELSE parts[1] \o sep \o join(sep, Tail(parts))

-----------------------------------------------------------------------------
(* search_bookmarks *)

query_parts(q) == split(strip(q))

collections_of(q) ==
    LET parts == SelectSeq(query_parts(q), LAMBDA part : startswith(part, <<"@">>))
    IN  [k \in 1..Len(parts) |-> lower(Tail(parts[k]))]

or_tags_of(q) ==
    LET parts == SelectSeq(query_parts(q),
                     LAMBDA part : startswith(part, <<"#">>) /\ ~startswith(part, <<"#", "#">>))
    IN  [k \in 1..Len(parts) |-> lower(Tail(parts[k]))]

and_tags_of(q) ==
    LET parts == SelectSeq(query_parts(q), LAMBDA part : startswith(part, <<"#", "#">>))
    IN  [k \in 1..Len(parts) |-> lower(Tail(Tail(parts[k])))]

\* if collections: the list comprehension of lines 86-89
CollectionStage(bms, idx, collections) ==
    IF collections = <<>> THEN idx
    ELSE SelectSeq(idx, LAMBDA i :
            \E c \in 1..Len(collections) :
                startswith(lower(bms[i].collection), collections[c]))

\* AndStage with any() in place of all()
AndStageAny(bms, idx, and_tags) ==
    IF and_tags = <<>> THEN idx
    ELSE SelectSeq(idx, LAMBDA i :
            \E a \in 1..Len(and_tags) :
                \E t \in 1..Len(bms[i].tags) : startswith(bms[i].tags[t], and_tags[a]))

\* AndStage that drops empty prefixes first
AndStageSkipEmpty(bms, idx, and_tags) ==
    LET given == SelectSeq(and_tags, LAMBDA a : a # <<>>)
    IN  IF given = <<>> THEN idx
        ELSE SelectSeq(idx, LAMBDA i :
                \A a \in 1..Len(given) :
                    \E t \in 1..Len(bms[i].tags) : startswith(bms[i].tags[t], given[a]))

\* if and_tags: the list comprehension of lines 93-99
AndStage(bms, idx, and_tags) ==
    IF and_tags = <<>> THEN idx
    ELSE SelectSeq(idx, LAMBDA i :
            \A a \in 1..Len(and_tags) :
                \E t \in 1..Len(bms[i].tags) : startswith(bms[i].tags[t], and_tags[a]))

\* if or_tags: the list comprehension of lines 103-109
OrStage(bms, idx, or_tags) ==
    IF or_tags = <<>> THEN idx
    ELSE SelectSeq(idx, LAMBDA i :
            \E o \in 1..Len(or_tags) :
                \E t \in 1..Len(bms[i].tags) : startswith(bms[i].tags[t], or_tags[o]))

\* partial_score after the title boost of lines 125-126
partial_score(q, bm, partial) ==
    IF startswith(lower(bm.title), lower(q)) THEN partial + TitleBoost ELSE partial

\* total_score is (partial_score + ratio_score) / 2, a float with halves; the
\* model keeps its double, an integer, and compares it with the doubled threshold
total_score_x2(q, bm, partial, rat) == partial_score(q, bm, partial) + rat

\* the threshold with >= in place of >
at_or_above_threshold(score_x2) == score_x2 >= 2 * ScoreThreshold

above_threshold(score_x2) == score_x2 > 2 * ScoreThreshold

\* a descending sort that is not stable: equal keys come out reversed
RECURSIVE sorted_desc_unstable(_, _)
sorted_desc_unstable(xs, key) ==
    IF xs = <<>> THEN <<>>
    ELSE LET done == sorted_desc_unstable(SubSeq(xs, 1, Len(xs) - 1), key)
             x == xs[Len(xs)]
             n == Cardinality({k \in 1..Len(done) : key[done[k]] > key[x]})
         IN  SubSeq(done, 1, n) \o <<x>> \o SubSeq(done, n + 1, Len(done))

\* sorted(xs, key=..., reverse=True): descending by key, stable
RECURSIVE sorted_desc(_, _)
sorted_desc(xs, key) ==
    IF xs = <<>> THEN <<>>
    ELSE LET done == sorted_desc(SubSeq(xs, 1, Len(xs) - 1), key)
             x == xs[Len(xs)]
             \* x goes after every element whose key is >= its own
             n == Cardinality({k \in 1..Len(done) : key[done[k]] >= key[x]})
         IN  SubSeq(done, 1, n) \o <<x>> \o SubSeq(done, n + 1, Len(done))

AllPositions(bms) == [i \in 1..Len(bms) |-> i]

FuzzySearch(q, bms, idx, partial, rat) ==
    LET score == [i \in 1..Len(bms) |-> total_score_x2(q, bms[i], partial[i], rat[i])]
        ranked == sorted_desc(idx, score)
    IN  SelectSeq(ranked, LAMBDA i : above_threshold(score[i]))

\* the condition of line 112 without its or_tags test
fuzzy_path_ignoring_or_tags(q) ==
    /\ q # <<>>
    /\ collections_of(q) = <<>>
    /\ and_tags_of(q) = <<>>

\* the fuzzy block of lines 112-136 runs: the query is not empty (line 73) and
\* the three prefix lists are empty (line 112)
fuzzy_path(q) ==
    /\ q # <<>>
    /\ collections_of(q) = <<>>
    /\ and_tags_of(q) = <<>>
    /\ or_tags_of(q) = <<>>

search_bookmarks(q, bms, partial, rat) ==
    IF q = <<>> THEN AllPositions(bms)
    ELSE LET s1 == CollectionStage(bms, AllPositions(bms), collections_of(q))
             s2 == AndStage(bms, s1, and_tags_of(q))
             s3 == OrStage(bms, s2, or_tags_of(q))
         IN  IF fuzzy_path(q) THEN FuzzySearch(q, bms, s3, partial, rat) ELSE s3

-----------------------------------------------------------------------------
(* urlparse, as main uses it (line 177-178) *)

SchemeChars == Letters \cup {"0", "1", "+", "-", "."}

\* s.find(c) + 1: the position of the first c, 0 when there is none
RECURSIVE Find(_, _)
Find(s, cs) ==
    IF s = <<>> THEN 0
    ELSE IF Head(s) \in cs THEN 1
    ELSE LET k == Find(Tail(s), cs) IN IF k = 0 THEN 0 ELSE k + 1

HasScheme(url) ==
    LET i == Find(url, {":"})
    IN  /\ i > 1
        /\ url[1] \in Letters
        /\ \A k \in 1..(i - 1) : url[k] \in SchemeChars

urlparse_scheme(url) ==
    IF HasScheme(url) THEN lower(SubSeq(url, 1, Find(url, {":"}) - 1)) ELSE <<>>

urlparse_netloc(url) ==
    LET rest == IF HasScheme(url) THEN SubSeq(url, Find(url, {":"}) + 1, Len(url)) ELSE url
        after == SubSeq(rest, 3, Len(rest))
        delim == Find(after, {"/", "?", "#"})
    IN  IF ~startswith(rest, <<"/", "/">>) THEN <<>>
        ELSE IF delim = 0 THEN after
        ELSE SubSeq(after, 1, delim - 1)

http == <<"h", "t", "t", "p">>
https == <<"h", "t", "t", "p", "s">>

\* the condition of line 178 without its netloc test
is_url_by_scheme(q) == urlparse_scheme(q) \in {http, https}

\* the condition of line 178
is_url(q) == urlparse_scheme(q) \in {http, https} /\ urlparse_netloc(q) # <<>>

-----------------------------------------------------------------------------
(* update_usage_count and format_for_alfred *)

\* the loop of lines 64-67 without its break: every match
all_matches(selected_url, bms) == {i \in 1..Len(bms) : bms[i].url = selected_url}

\* positions of the bookmarks the loop of lines 64-67 modifies: the first match
first_match(selected_url, bms) ==
    LET hits == {i \in 1..Len(bms) : bms[i].url = selected_url}
    IN  IF hits = {} THEN {} ELSE {CHOOSE i \in hits : \A j \in hits : i <= j}

update_usage_count(selected_url, bms) ==
    [i \in 1..Len(bms) |->
        IF i \in first_match(selected_url, bms)
        THEN [bms[i] EXCEPT !.usage_count = @ + 1]
        ELSE bms[i]]

\* "".join(f"#{tag}" for tag in tags)
RECURSIVE hash_tags(_)
hash_tags(tags) ==
    IF tags = <<>> THEN <<>> ELSE <<"#">> \o Head(tags) \o hash_tags(Tail(tags))

\* the items of the Alfred JSON, in order (the icon comes from get_cover_image,
\* which reads and writes only the image cache)
format_for_alfred(bms, res) ==
    [k \in 1..Len(res) |->
        [title    |-> bms[res[k]].title,
         subtitle |-> <<"@">> \o bms[res[k]].collection \o <<" ">>
                        \o hash_tags(bms[res[k]].tags) \o <<"・">> \o bms[res[k]].description,
         arg      |-> bms[res[k]].url]]

-----------------------------------------------------------------------------
(* Inputs: strings, bookmark records, stored lists, command lines *)

\* sequences of at most n elements of S
SeqsUpTo(S, n) == UNION {[1..k -> S] : k \in 0..n}

TagRu == <<"r", "u">>
TagRuUpper == <<"R", "u">>
TagC == <<"c">>
CollIn == <<"I", "n">>
CollOut == <<"o", "u", "t">>
TitleAb == <<"A", "b">>
TitleB == <<"b">>
UrlA == <<"h", "t", "t", "p", ":", "/", "/", "a">>
UrlB == <<"h", "t", "t", "p", "s", ":", "/", "/", "b", "/", "x">>

TagLists == {<<>>, <<TagRu>>, <<TagRuUpper>>, <<TagRu, TagC>>}
UsageCounts == 0..MaxUsage

\* bookmarks that differ in tags and collection
FilterBookmarks ==
    [url : {UrlA}, title : {TitleAb}, tags : TagLists, collection : {CollIn, CollOut},
     description : {<<>>}, usage_count : {0}]

\* bookmarks that differ in title
FuzzyBookmarks ==
    [url : {UrlA}, title : {TitleAb, TitleB}, tags : {<<TagRu>>}, collection : {CollIn},
     description : {<<"n">>}, usage_count : {0}]

\* bookmarks that differ in usage count and tags
RankBookmarks ==
    [url : {UrlA}, title : {TitleB}, tags : {<<>>, <<TagRu>>}, collection : {CollIn},
     description : {<<>>}, usage_count : UsageCounts]

\* bookmarks that differ in url and usage count
UrlBookmarks ==
    [url : {UrlA, UrlB}, title : {TitleB}, tags : {<<TagRu>>}, collection : {CollIn},
     description : {<<>>}, usage_count : UsageCounts]

FilterTokens ==
    {<<"@", "i">>, <<"@", "O">>, <<"#", "r">>, <<"#", "C">>,
     <<"#", "#", "r">>, <<"#", "#", "C">>, <<"#", "#">>}
TextTokens == {<<"a">>, <<"Z", "z">>}
Blank == <<" ">>

\* command-line words that look like a URL: two URLs, an upper-case scheme, a
\* scheme without "//", another scheme, an empty network location
UrlWords ==
    {UrlA, UrlB,
     <<"H", "T", "T", "P", ":", "/", "/", "a">>,
     <<"h", "t", "t", "p", ":", "a">>,
     <<"f", "t", "p", ":", "/", "/", "a">>,
     <<"h", "t", "t", "p", ":", "/", "/", "/", "a">>}

\* the scores fuzz may return for one bookmark: <<partial_ratio, ratio>>
FuzzScores == {<<30, 50>>, <<100, 0>>, <<100, 50>>, <<100, 70>>}

\* what the fuzz calls of one search_bookmarks call return: nothing when the
\* fuzzy block does not run, a pair of scores per bookmark when it does
FuzzReturns(q, bms) ==
    IF fuzzy_path(q) THEN [1..Len(bms) -> FuzzScores] ELSE {<<>>}

Partials(sc) == [i \in 1..Len(sc) |-> sc[i][1]]
Ratios(sc) == [i \in 1..Len(sc) |-> sc[i][2]]

NoSecondCall == query2 = <<>> /\ partial_ratio2 = <<>> /\ ratio2 = <<>> /\ found2 = <<>>

Fresh ==
    /\ query = <<>> /\ bookmarks = <<>>
    /\ partial_ratio = <<>> /\ ratio = <<>>
    /\ results = <<>> /\ found = <<>>
    /\ stdout = <<>> /\ calls = <<>>

-----------------------------------------------------------------------------
(* main: one run of the script *)

Init ==
    /\ pc = "main"
    /\ \/ /\ file \in SeqsUpTo(RankBookmarks, MaxBookmarks)
          /\ argv \in SeqsUpTo({<<"a">>, <<"#", "r">>, Blank}, MaxTokens)
       \/ /\ file \in SeqsUpTo(UrlBookmarks, MaxBookmarks)
          /\ argv \in {<<w>> : w \in UrlWords}
    /\ Fresh
    /\ NoSecondCall

\* lines 171-174
Load ==
    /\ pc = "main"
    /\ query' = strip(join(<<" ">>, argv))
    /\ bookmarks' = file
    /\ calls' = Append(calls, "load_bookmarks")
    /\ pc' = "loaded"
    /\ UNCHANGED <<argv, file, partial_ratio, ratio, results, found, stdout,
                   query2, partial_ratio2, ratio2, found2>>

\* lines 177-180, with update_usage_count and its save_bookmarks
UpdateUsage ==
    /\ pc = "loaded"
    /\ is_url(query)
    /\ bookmarks' = update_usage_count(query, bookmarks)
    /\ file' = bookmarks'
    /\ calls' = calls \o <<"update_usage_count", "save_bookmarks">>
    /\ pc' = "done"
    /\ UNCHANGED <<argv, query, partial_ratio, ratio, results, found, stdout,
                   query2, partial_ratio2, ratio2, found2>>

\* line 183
Search ==
    /\ pc = "loaded"
    /\ ~is_url(query)
    /\ \E sc \in FuzzReturns(query, bookmarks) :
        /\ partial_ratio' = Partials(sc)
        /\ ratio' = Ratios(sc)
        /\ found' = search_bookmarks(query, bookmarks, Partials(sc), Ratios(sc))
    /\ results' = found'
    /\ calls' = Append(calls, "search_bookmarks")
    /\ pc' = "searched"
    /\ UNCHANGED <<argv, query, file, bookmarks, stdout,
                   query2, partial_ratio2, ratio2, found2>>

usage_counts(bms) == [i \in 1..Len(bms) |-> bms[i].usage_count]

\* line 186 without reverse=True
SortByUsageAscending ==
    /\ pc = "searched"
    /\ results' = sorted_desc(results, [i \in 1..Len(bookmarks) |-> 0 - bookmarks[i].usage_count])
    /\ calls' = Append(calls, "sorted")
    /\ pc' = "sorted"
    /\ UNCHANGED <<argv, query, file, bookmarks, partial_ratio, ratio, found, stdout,
                   query2, partial_ratio2, ratio2, found2>>

\* line 186 as bookmarks.sort(...): the loaded list itself is reordered
SortByUsageInPlace ==
    /\ pc = "searched"
    /\ LET order == sorted_desc(AllPositions(bookmarks), usage_counts(bookmarks))
       IN  bookmarks' = [k \in 1..Len(bookmarks) |-> bookmarks[order[k]]]
    /\ results' = sorted_desc(results, usage_counts(bookmarks))
    /\ calls' = Append(calls, "sorted")
    /\ pc' = "sorted"
    /\ UNCHANGED <<argv, query, file, partial_ratio, ratio, found, stdout,
                   query2, partial_ratio2, ratio2, found2>>

\* line 186
SortByUsage ==
    /\ pc = "searched"
    /\ results' = sorted_desc(results, usage_counts(bookmarks))
    /\ calls' = Append(calls, "sorted")
    /\ pc' = "sorted"
    /\ UNCHANGED <<argv, query, file, bookmarks, partial_ratio, ratio, found, stdout,
                   query2, partial_ratio2, ratio2, found2>>

\* line 189
Output ==
    /\ pc = "sorted"
    /\ stdout' = Append(stdout, format_for_alfred(bookmarks, results))
    /\ calls' = Append(calls, "format_for_alfred")
    /\ pc' = "done"
    /\ UNCHANGED <<argv, query, file, bookmarks, partial_ratio, ratio, results, found,
                   query2, partial_ratio2, ratio2, found2>>

Next == Load \/ UpdateUsage \/ Search \/ SortByUsage \/ Output

Spec == Init /\ [][Next]_vars

-----------------------------------------------------------------------------
(* search_bookmarks called on its own *)

Queries(words, n) == {join(<<" ">>, ws) : ws \in SeqsUpTo(words, n)}

\* queries that enable the three stages at once
StagedQueries ==
    {join(<<" ">>, <<c, a, o>>) :
        c \in {<<"@", "i">>, <<"@", "O">>},
        a \in {<<"#", "#", "r">>, <<"#", "#">>},
        o \in {<<"#", "r">>, <<"#", "C">>}}

InitSearch ==
    /\ pc = "call"
    /\ argv = <<>> /\ file = <<>>
    /\ \/ /\ bookmarks \in SeqsUpTo(FilterBookmarks, MaxBookmarks)
          /\ query \in Queries(FilterTokens \cup {<<"Z", "z">>, Blank}, MaxTokens)
                        \cup StagedQueries
       \/ /\ bookmarks \in SeqsUpTo(FuzzyBookmarks, MaxBookmarks)
          /\ query \in Queries(TextTokens \cup {<<"A">>, Blank}, MaxTokens)
    /\ partial_ratio = <<>> /\ ratio = <<>>
    /\ results = <<>> /\ found = <<>>
    /\ stdout = <<>> /\ calls = <<>>
    /\ NoSecondCall

\* lines 71-138
CallSearch ==
    /\ pc = "call"
    /\ \E sc \in FuzzReturns(query, bookmarks) :
        /\ partial_ratio' = Partials(sc)
        /\ ratio' = Ratios(sc)
        /\ found' = search_bookmarks(query, bookmarks, Partials(sc), Ratios(sc))
    /\ calls' = Append(calls, "search_bookmarks")
    /\ pc' = "returned"
    /\ UNCHANGED <<argv, query, file, bookmarks, results, stdout,
                   query2, partial_ratio2, ratio2, found2>>

NextSearch == CallSearch

SpecSearch == InitSearch /\ [][NextSearch]_vars

-----------------------------------------------------------------------------
(* search_bookmarks called twice on the same list *)

IsFilterToken(part) == startswith(part, <<"@">>) \/ startswith(part, <<"#">>)

FilterParts(q) == SelectSeq(query_parts(q), IsFilterToken)

TextParts(q) == SelectSeq(query_parts(q), LAMBDA part : ~IsFilterToken(part))

Count(xs, x) == Cardinality({k \in 1..Len(xs) : xs[k] = x})

SameMultiset(xs, ys) ==
    /\ Len(xs) = Len(ys)
    /\ \A k \in 1..Len(xs) : Count(xs, xs[k]) = Count(ys, xs[k])

PairBookmarks ==
    [url : {UrlA}, title : {TitleAb}, tags : {<<>>, <<TagRu>>}, collection : {CollIn},
     description : {<<>>}, usage_count : {0}]

PairWords == {<<"#", "r">>, <<"@", "i">>, <<"a">>, <<"Z", "z">>}

\* the second query is the first one again, or one with the same filter tokens
InitPair ==
    /\ pc = "call"
    /\ argv = <<>> /\ file = <<>>
    /\ bookmarks \in SeqsUpTo(PairBookmarks, MaxBookmarks)
    /\ query \in Queries(PairWords, MaxTokens)
    /\ query2 \in {q \in Queries(PairWords, MaxTokens) :
                     \/ q = query
                     \/ /\ FilterParts(q) # <<>>
                        /\ SameMultiset(FilterParts(q), FilterParts(query))}
    /\ partial_ratio = <<>> /\ ratio = <<>>
    /\ results = <<>> /\ found = <<>>
    /\ stdout = <<>> /\ calls = <<>>
    /\ partial_ratio2 = <<>> /\ ratio2 = <<>> /\ found2 = <<>>

\* fuzz is a function of its arguments: the same query gets the same scores
FuzzReturnsAgain ==
    IF query2 = query
    THEN {[i \in 1..Len(partial_ratio) |-> <<partial_ratio[i], ratio[i]>>]}
    ELSE FuzzReturns(query2, bookmarks)

\* lines 71-138, second call
CallSearchAgain ==
    /\ pc = "returned"
    /\ \E sc \in FuzzReturnsAgain :
        /\ partial_ratio2' = Partials(sc)
        /\ ratio2' = Ratios(sc)
        /\ found2' = search_bookmarks(query2, bookmarks, Partials(sc), Ratios(sc))
    /\ calls' = Append(calls, "search_bookmarks")
    /\ pc' = "returned again"
    /\ UNCHANGED <<argv, query, file, bookmarks, partial_ratio, ratio, results, found,
                   stdout, query2>>

NextPair == CallSearch \/ CallSearchAgain

SpecPair == InitPair /\ [][NextPair]_vars

-----------------------------------------------------------------------------
(* Vocabulary of the properties *)

Range(xs) == {xs[k] : k \in 1..Len(xs)}

NoRepeats(xs) == \A k, l \in 1..Len(xs) : k # l => xs[k] # xs[l]

Positions == 1..Len(bookmarks)

\* where x stands in xs
IndexIn(xs, x) == CHOOSE k \in 1..Len(xs) : xs[k] = x

\* the prefix sets of a query, token by token
AtPrefixes(q) ==
    {lower(Tail(p)) : p \in {t \in Range(query_parts(q)) : t[1] = "@"}}

AndPrefixes(q) ==
    {lower(Tail(Tail(p))) :
        p \in {t \in Range(query_parts(q)) : Len(t) >= 2 /\ t[1] = "#" /\ t[2] = "#"}}

OrPrefixes(q) ==
    {lower(Tail(p)) :
        p \in {t \in Range(query_parts(q)) : t[1] = "#" /\ (Len(t) >= 2 => t[2] # "#")}}

HasFilterToken(q) == \E t \in Range(query_parts(q)) : t[1] \in {"@", "#"}

\* the three stages, on the stored tags
PassesStages(q, bm) ==
    /\ AtPrefixes(q) # {} =>
          \E c \in AtPrefixes(q) : startswith(lower(bm.collection), c)
    /\ AndPrefixes(q) # {} =>
          \A a \in AndPrefixes(q) : \E tag \in Range(bm.tags) : startswith(tag, a)
    /\ OrPrefixes(q) # {} =>
          \E o \in OrPrefixes(q) : \E tag \in Range(bm.tags) : startswith(tag, o)

\* the three stages, on lowercased tags
PassesStagesAnyCase(q, bm) ==
    /\ AtPrefixes(q) # {} =>
          \E c \in AtPrefixes(q) : startswith(lower(bm.collection), c)
    /\ AndPrefixes(q) # {} =>
          \A a \in AndPrefixes(q) : \E tag \in Range(bm.tags) : startswith(lower(tag), a)
    /\ OrPrefixes(q) # {} =>
          \E o \in OrPrefixes(q) : \E tag \in Range(bm.tags) : startswith(lower(tag), o)

\* two bookmarks that differ at most in the letter case of tags and collection
SameUpToCase(b1, b2) ==
    /\ [b1 EXCEPT !.tags = <<>>, !.collection = <<>>]
         = [b2 EXCEPT !.tags = <<>>, !.collection = <<>>]
    /\ lower(b1.collection) = lower(b2.collection)
    /\ Len(b1.tags) = Len(b2.tags)
    /\ \A t \in 1..Len(b1.tags) : lower(b1.tags[t]) = lower(b2.tags[t])

\* scheme http or https (any case), "://", then a non-empty network location
HttpUrlShape(q) ==
    \E n \in {4, 5} :
        /\ Len(q) >= n + 4
        /\ lower(SubSeq(q, 1, n)) \in {http, https}
        /\ SubSeq(q, n + 1, n + 3) = <<":", "/", "/">>
        /\ q[n + 4] \notin {"/", "?", "#"}

Called(f) == f \in Range(calls)

UsageOf(i) == bookmarks[i].usage_count

\* twice the total score the claim gives bookmark i: partial + bonus + ratio
Bonus(i) == IF startswith(lower(bookmarks[i].title), lower(query)) THEN 20 ELSE 0
TwiceTotal(i) == partial_ratio[i] + Bonus(i) + ratio[i]

FreeText(q) == q # <<>> /\ ~HasFilterToken(q)

-----------------------------------------------------------------------------
(* C1: a query with an '@' or '#' token returns exactly the bookmarks that   *)
(* pass every enabled stage: lowercased collection starts with some          *)
(* collection prefix; every AND prefix starts some tag; some OR prefix       *)
(* starts some tag; a stage with no prefix removes nothing.                  *)
C1_FilterStages ==
    (pc = "returned" /\ HasFilterToken(query)) =>
        /\ Range(found) = {i \in Positions : PassesStages(query, bookmarks[i])}
        /\ NoRepeats(found)

C1_Witness ==
    /\ pc = "returned"
    /\ AtPrefixes(query) # {} /\ AndPrefixes(query) # {} /\ OrPrefixes(query) # {}
    /\ found # <<>>
    /\ Len(found) < Len(bookmarks)

(* C2: the filter stages compare tags and collection case-insensitively: a   *)
(* bookmark passes iff the lowercased tag (collection) starts with the       *)
(* lowercased prefix, so bookmarks that differ only in letter case get the   *)
(* same outcome.                                                             *)
C2_CaseInsensitive ==
    (pc = "returned" /\ HasFilterToken(query)) =>
        /\ Range(found) = {i \in Positions : PassesStagesAnyCase(query, bookmarks[i])}
        /\ \A i, j \in Positions :
              SameUpToCase(bookmarks[i], bookmarks[j]) =>
                  (i \in Range(found) <=> j \in Range(found))

(* C3: when the query is an absolute http(s) URL with a network location,    *)
(* main runs only the update path and prints nothing; for every other query  *)
(* the update path does not run.                                             *)
C3_UrlBypass ==
    pc # "main" =>
        IF HttpUrlShape(query)
        THEN /\ ~Called("search_bookmarks") /\ ~Called("sorted")
             /\ ~Called("format_for_alfred")
             /\ stdout = <<>>
             /\ pc = "done" =>
                   calls = <<"load_bookmarks", "update_usage_count", "save_bookmarks">>
        ELSE /\ ~Called("update_usage_count") /\ ~Called("save_bookmarks")
             /\ pc = "done" =>
                   calls = <<"load_bookmarks", "search_bookmarks", "sorted",
                             "format_for_alfred">>

C3_Witness ==
    /\ pc = "done"
    /\ HttpUrlShape(query)
    /\ Called("update_usage_count")
    /\ stdout = <<>>

(* C4: the list main passes to the formatter is ordered by usage_count,      *)
(* non-increasing, whatever the scores and the stored positions.             *)
C4_UsageOrder ==
    (pc \in {"sorted", "done"} /\ Called("sorted")) =>
        /\ \A k, l \in 1..Len(results) :
              k < l => UsageOf(results[k]) >= UsageOf(results[l])
        /\ pc = "done" =>
              /\ Len(stdout) = 1
              /\ Len(stdout[1]) = Len(results)
              /\ \A k \in 1..Len(results) : stdout[1][k].arg = bookmarks[results[k]].url

C4_Witness ==
    /\ pc = "done"
    /\ \E k, l \in 1..Len(found) : k < l /\ UsageOf(found[k]) < UsageOf(found[l])

(* C5: in the fuzzy fallback a bookmark is returned iff                      *)
(* (partial + bonus + ratio) / 2 > 50, bonus 20 when the lowercased title    *)
(* starts with the lowercased query, without clamp; a total of exactly 50    *)
(* is excluded; the list is in non-increasing total order.                   *)
C5_FuzzyThreshold ==
    (pc = "returned" /\ FreeText(query)) =>
        /\ Range(found) = {i \in Positions : TwiceTotal(i) > 100}
        /\ \A i \in Positions : TwiceTotal(i) = 100 => i \notin Range(found)
        /\ NoRepeats(found)
        /\ \A k, l \in 1..Len(found) :
              k < l => TwiceTotal(found[k]) >= TwiceTotal(found[l])

C5_Witness ==
    /\ pc = "returned"
    /\ FreeText(query)
    /\ \E i \in Range(found) : Bonus(i) = 20 /\ partial_ratio[i] = 100 /\ ratio[i] = 0
    /\ \E j \in Positions : TwiceTotal(j) = 100 /\ j \notin Range(found)

(* C6, as claimed: the empty AND prefix of a lone '##' keeps every bookmark, *)
(* so the query '##' returns the bookmarks of the empty query.               *)
C6_EmptyAndPrefixNoOp ==
    (pc = "returned" /\ query_parts(query) = <<<<"#", "#">>>>) =>
        Range(found) = Positions

(* C6, amended: the empty AND prefix of a lone '##' keeps exactly the        *)
(* bookmarks that have at least one tag, so the query '##' returns the       *)
(* bookmarks of the empty query without those whose tag list is empty.       *)
C6_EmptyAndPrefixKeepsTagged ==
    LET tagged == SelectSeq(AllPositions(bookmarks), LAMBDA i : bookmarks[i].tags # <<>>)
    IN  /\ AndStage(bookmarks, AllPositions(bookmarks), <<<<>>>>) = tagged
        /\ (pc = "returned" /\ query_parts(query) = <<<<"#", "#">>>>) => found = tagged

C6_Witness ==
    /\ pc = "returned"
    /\ query_parts(query) = <<<<"#", "#">>>>
    /\ found # <<>>
    /\ Len(found) < Len(bookmarks)

(* C7: fuzzy scoring runs iff the non-empty query has no '@' or '#' token,   *)
(* and two queries with the same non-empty multiset of filter tokens return  *)
(* the same list for the same bookmarks, in stored order.                    *)
C7_FreeTextIgnored ==
    /\ (pc # "call" /\ bookmarks # <<>>) =>
          (partial_ratio # <<>> <=> FreeText(query))
    /\ (pc = "returned again"
          /\ FilterParts(query) # <<>>
          /\ SameMultiset(FilterParts(query), FilterParts(query2))) =>
              /\ found2 = found
              /\ \A k, l \in 1..Len(found) : k < l => found[k] < found[l]

C7_Witness ==
    /\ pc = "returned again"
    /\ FilterParts(query) # <<>>
    /\ SameMultiset(FilterParts(query), FilterParts(query2))
    /\ TextParts(query) # TextParts(query2)
    /\ found # <<>>
    /\ Len(found) < Len(bookmarks)

(* C8: for a non-URL query no step of main changes the stored list or the    *)
(* loaded records, and save_bookmarks is never called.                       *)
C8_SearchPathFrame ==
    [][(pc' # "main" /\ ~HttpUrlShape(query')) =>
          /\ file' = file
          /\ bookmarks' = file
          /\ "save_bookmarks" \notin Range(calls')]_vars

C8_Witness ==
    /\ pc = "done"
    /\ Called("format_for_alfred")
    /\ results # found
    /\ bookmarks = file

(* C9: update_usage_count adds 1 to the usage_count of the first bookmark    *)
(* whose url is u and changes nothing else; with no such bookmark nothing    *)
(* changes; the saved list has the length and order of the loaded one.       *)
C9_UpdateFrame ==
    [][(pc = "loaded" /\ pc' = "done") =>
          LET hits == {i \in 1..Len(file) : file[i].url = query}
          IN  /\ Len(file') = Len(file)
              /\ \A i \in 1..Len(file) :
                    IF i \in hits /\ \A j \in hits : i <= j
                    THEN file'[i] = [file[i] EXCEPT !.usage_count = @ + 1]
                    ELSE file'[i] = file[i]]_vars

C9_Witness ==
    /\ pc = "done"
    /\ Called("save_bookmarks")
    /\ Cardinality({i \in 1..Len(file) : file[i].url = query}) >= 2

(* C10: the usage-count sort is stable: two results with equal usage_count   *)
(* keep the order search_bookmarks gave them, which is non-increasing total  *)
(* score on the fuzzy path and stored order on the other paths.              *)
C10_StableTies ==
    /\ (pc \in {"sorted", "done"} /\ Called("sorted")) =>
          /\ Range(results) = Range(found)
          /\ \A k, l \in 1..Len(results) :
                (k < l /\ UsageOf(results[k]) = UsageOf(results[l])) =>
                    IndexIn(found, results[k]) < IndexIn(found, results[l])
    /\ Called("search_bookmarks") =>
          \A k, l \in 1..Len(found) :
              k < l => IF FreeText(query)
                       THEN TwiceTotal(found[k]) >= TwiceTotal(found[l])
                       ELSE found[k] < found[l]

C10_Witness ==
    /\ pc = "sorted"
    /\ \E k, l \in 1..Len(results) :
          /\ k < l
          /\ UsageOf(results[k]) = UsageOf(results[l])
          /\ results[k] > results[l]

====
